---- MODULE Spec2Model ----
(***************************************************************************)
(* A model of generate_readme.py: the front-matter parser                  *)
(* (parse_front_matter) and the README generator (generate_readme).        *)
(*                                                                         *)
(* Text is modelled by TLA+ strings over printable ASCII plus tab and      *)
(* newline.  Files are opened in text mode with universal newlines, so a   *)
(* carriage return never reaches the parser.  The two non-ASCII characters *)
(* of the boilerplate (em dash, en dash) are written as escapes.           *)
(***************************************************************************)
EXTENDS Integers, Sequences, FiniteSets, TLC

VARIABLES
    dir,                \* the script's directory: file name -> text content
    pc,                 \* position of generate_readme
    md_files,           \* sorted(glob("*.md"))
    idx,                \* index of the next element of md_files in the loop
    parsed,             \* names handed to parse_front_matter in this run
    categories,         \* category -> sequence of entries
    ordered_categories, \* sequence of category names
    total,              \* count of plans
    lines,              \* lines of the document
    stderr,             \* lines printed to sys.stderr in this run
    opened,             \* names opened for writing in this run
    outputs,            \* documents written by the completed runs, in order
    content,            \* parse_front_matter: text of the file read
    ppc,                \* parse_front_matter: position
    todo,               \* parse_front_matter: lines of the block not yet looped over
    front_matter        \* parse_front_matter: the mapping being built

vars == <<dir, pc, md_files, idx, parsed, categories,
          ordered_categories, total, lines, stderr, opened, outputs,
          content, ppc, todo, front_matter>>

genVars == <<dir, pc, md_files, idx, parsed, categories,
             ordered_categories, total, lines, stderr, opened, outputs>>

parseVars == <<content, ppc, todo, front_matter>>

----------------------------------------------------------------------------
(* Characters and strings                                                  *)

\* printable ASCII in code-point order: 32..95 and 97..126 (the grave accent,
\* code 96, cannot be written in a string and is left out of the alphabet)
AsciiLo == " !\"#$%&'()*+,-./0123456789:;<=>?@ABCDEFGHIJKLMNOPQRSTUVWXYZ[\\]^_"

AsciiHi == "abcdefghijklmnopqrstuvwxyz{|}~"

Ch(s, i) == IF 1 <= i /\ i <= Len(s) THEN SubSeq(s, i, i) ELSE ""

Max(S) == CHOOSE m \in S : \A x \in S : x <= m

Min(S) == CHOOSE m \in S : \A x \in S : m <= x

\* code point of each character of the alphabet (Python compares strings by
\* code point)
OrdTable ==
    [c \in {"\t", "\n"} \cup {Ch(AsciiLo, i) : i \in 1..Len(AsciiLo)}
              \cup {Ch(AsciiHi, i) : i \in 1..Len(AsciiHi)} |->
        IF c = "\t" THEN 9
        ELSE IF c = "\n" THEN 10
        ELSE IF \E i \in 1..Len(AsciiLo) : Ch(AsciiLo, i) = c
             THEN 31 + (CHOOSE i \in 1..Len(AsciiLo) : Ch(AsciiLo, i) = c)
             ELSE 96 + (CHOOSE i \in 1..Len(AsciiHi) : Ch(AsciiHi, i) = c)]

Ord(c) == OrdTable[c]

Chr(o) == IF o <= 95 THEN Ch(AsciiLo, o - 31) ELSE Ch(AsciiHi, o - 96)

\* regex class \s
IsSpace(c) == c \in {" ", "\t", "\n"}

\* regex class \w: digits, letters and the underscore
WordChars == {c \in DOMAIN OrdTable :
                 OrdTable[c] \in (48..57) \cup (65..90) \cup {95} \cup (97..122)}

IsWord(c) == c \in WordChars

\* length of the longest run of \s starting at position i of s
RECURSIVE SpaceRun(_, _)
SpaceRun(s, i) ==
    IF i <= Len(s) /\ IsSpace(Ch(s, i)) THEN 1 + SpaceRun(s, i + 1) ELSE 0

\* length of the longest run of \w starting at position i of s
RECURSIVE WordRun(_, _)
WordRun(s, i) ==
    IF i <= Len(s) /\ IsWord(Ch(s, i)) THEN 1 + WordRun(s, i + 1) ELSE 0

\* position of the last character of s that is not white space, 0 if none
RECURSIVE LastInk(_, _)
LastInk(s, i) ==
    IF i = 0 THEN 0 ELSE IF IsSpace(Ch(s, i)) THEN LastInk(s, i - 1) ELSE i

\* str.strip()
Strip(s) == SubSeq(s, SpaceRun(s, 1) + 1, LastInk(s, Len(s)))

\* str.lower()
RECURSIVE Lower(_)
Lower(s) ==
    IF s = "" THEN ""
    ELSE LET o == Ord(Ch(s, 1))
         IN  (IF o \in 65..90 THEN Chr(o + 32) ELSE Ch(s, 1)) \o Lower(Tail(s))

\* a < b for strings, as Python orders them
RECURSIVE StrLess(_, _)
StrLess(a, b) ==
    IF b = "" THEN FALSE
    ELSE IF a = "" THEN TRUE
    ELSE IF Ch(a, 1) = Ch(b, 1) THEN StrLess(Tail(a), Tail(b))
    ELSE Ord(Ch(a, 1)) < Ord(Ch(b, 1))

\* position of the first newline of s at or after i, 0 if none
RECURSIVE FindNewline(_, _)
FindNewline(s, i) ==
    IF i > Len(s) THEN 0 ELSE IF Ch(s, i) = "\n" THEN i ELSE FindNewline(s, i + 1)

\* str.splitlines()
RECURSIVE SplitLines(_)
SplitLines(s) ==
    IF s = "" THEN <<>>
    ELSE LET nl == FindNewline(s, 1)
         IN  IF nl = 0 THEN <<s>>
             ELSE <<SubSeq(s, 1, nl - 1)>> \o SplitLines(SubSeq(s, nl + 1, Len(s)))

\* "\n".join(seq)
RECURSIVE Join(_)
Join(seq) ==
    IF seq = <<>> THEN ""
    ELSE IF Len(seq) = 1 THEN seq[1]
    ELSE seq[1] \o "\n" \o Join(Tail(seq))

\* str(n) for n >= 0
RECURSIVE Str(_)
Str(n) ==
    IF n < 10 THEN Ch("0123456789", n + 1)
    ELSE Str(n \div 10) \o Ch("0123456789", (n % 10) + 1)

----------------------------------------------------------------------------
(* parse_front_matter                                                      *)

EmptyDict == [k \in {} |-> ""]

\* the None returned when the block regex does not match
None == [present |-> FALSE, dict |-> EmptyDict]

Some(d) == [present |-> TRUE, dict |-> d]

NoMatch == [matched |-> FALSE, key |-> "", value |-> ""]

\* \s*\n at position j: a newline within the run of white space starting at j
RECURSIVE NewlineInRun(_, _)
NewlineInRun(text, j) ==
    /\ j <= Len(text)
    /\ IsSpace(Ch(text, j))
    /\ (Ch(text, j) = "\n" \/ NewlineInRun(text, j + 1))

\* \n---\s*\n with the \n at position e
ClosesAt(text, e) ==
    /\ e + 4 <= Len(text)
    /\ Ch(text, e) = "\n"
    /\ SubSeq(text, e + 1, e + 3) = "---"
    /\ NewlineInRun(text, e + 4)

\* the lazy (.*?\n): the first position at or after e that closes the block,
\* 0 if none
RECURSIVE FirstClose(_, _)
FirstClose(text, e) ==
    IF e > Len(text) THEN 0
    ELSE IF ClosesAt(text, e) THEN e
    ELSE FirstClose(text, e + 1)

\* the greedy \s* after the opening hyphens: the longest k at most `most`
\* with a newline right after it from which the rest matches, -1 if none
RECURSIVE OpenSkip(_, _)
OpenSkip(text, most) ==
    IF most < 0 THEN -1
    ELSE IF /\ 4 + most <= Len(text)
            /\ Ch(text, 4 + most) = "\n"
            /\ FirstClose(text, 5 + most) # 0
         THEN most
         ELSE OpenSkip(text, most - 1)

\* the match object for an opening \s* of k characters, k < 0 for no match
BlockGroup(text, k) ==
    IF k < 0
    THEN [matched |-> FALSE, group1 |-> ""]
    ELSE [matched |-> TRUE, group1 |-> SubSeq(text, 5 + k, FirstClose(text, 5 + k))]

\* re.match(r"^---\s*\n(.*?\n)---\s*\n", content, re.DOTALL) and its group(1)
BlockMatch(text) ==
    BlockGroup(text, IF Len(text) >= 3 /\ SubSeq(text, 1, 3) = "---"
                     THEN OpenSkip(text, SpaceRun(text, 4))
                     ELSE -1)

\* the common prefix ^(\w+)\s*: of the three line patterns, for a key of w
\* characters: the position of the colon, 0 when the prefix does not match
ColonAfter(line, w) ==
    IF w >= 1 /\ Ch(line, w + 1 + SpaceRun(line, w + 1)) = ":"
    THEN w + 1 + SpaceRun(line, w + 1)
    ELSE 0

ColonAt(line) == ColonAfter(line, WordRun(line, 1))

\* s without its leading white space: what follows a greedy \s*
LStrip(s) == SubSeq(s, SpaceRun(s, 1) + 1, Len(s))

\* Q(.+)Q$ on the text after the \s* that follows the colon
QuotedBody(key, body, q) ==
    IF Len(body) >= 3 /\ Ch(body, 1) = q /\ Ch(body, Len(body)) = q
    THEN [matched |-> TRUE, key |-> key, value |-> SubSeq(body, 2, Len(body) - 1)]
    ELSE NoMatch

QuotedFrom(line, c, q) ==
    IF c = 0 THEN NoMatch
    ELSE QuotedBody(SubSeq(line, 1, WordRun(line, 1)),
                    LStrip(SubSeq(line, c + 1, Len(line))), q)

\* ^(\w+)\s*:\s*Q(.+)Q$ for a quote character Q
Quoted(line, q) == QuotedFrom(line, ColonAt(line), q)

\* re.match(r'^(\w+)\s*:\s*"(.+)"$', line)
DoubleQuoted(line) == Quoted(line, "\"")

\* re.match(r"^(\w+)\s*:\s*'(.+)'$", line)
SingleQuoted(line) == Quoted(line, "'")

\* (.+)$ on the text r after the colon: the greedy \s* gives back one
\* character when r is all white space
BareBody(key, r) ==
    IF Len(r) >= 1
    THEN [matched |-> TRUE, key |-> key,
          value |-> IF LStrip(r) # "" THEN LStrip(r) ELSE Ch(r, Len(r))]
    ELSE NoMatch

BareFrom(line, c) ==
    IF c = 0 THEN NoMatch
    ELSE BareBody(SubSeq(line, 1, WordRun(line, 1)), SubSeq(line, c + 1, Len(line)))

\* re.match(r"^(\w+)\s*:\s*(.+)$", line)
Bare(line) == BareFrom(line, ColonAt(line))

\* `if not m:` twice: the first of the three matches that succeeded
FirstMatch(double, single, bare) ==
    IF double.matched THEN double ELSE IF single.matched THEN single ELSE bare

\* the three patterns in the order the loop body tries them
LineMatch(line) == FirstMatch(DoubleQuoted(line), SingleQuoted(line), Bare(line))

\* what is stored for a matching line: m.group(2).strip()
StoredValue(group2) == Strip(group2)

\* front_matter[m.group(1)] = ...
Store(fm, k, v) == [x \in (DOMAIN fm) \cup {k} |-> IF x = k THEN v ELSE fm[x]]

\* if m: front_matter[m.group(1)] = m.group(2).strip()
StoreMatch(fm, m) == IF m.matched THEN Store(fm, m.key, StoredValue(m.value)) ELSE fm

\* one pass of the loop body
LineStep(fm, line) == StoreMatch(fm, LineMatch(line))

RECURSIVE ParseLines(_, _)
ParseLines(fm, ls) ==
    IF ls = <<>> THEN fm ELSE ParseLines(LineStep(fm, Head(ls)), Tail(ls))

\* the rest of parse_front_matter once the block pattern has been tried
AfterBlock(b) ==
    IF ~b.matched THEN None ELSE Some(ParseLines(EmptyDict, SplitLines(b.group1)))

\* parse_front_matter, on the text read from the file
parse_front_matter(text) == AfterBlock(BlockMatch(text))

----------------------------------------------------------------------------
(* generate_readme: constants and pure steps                               *)

CATEGORY_ORDER ==
    << "Spring & Spring Boot",
       "JVM Internals",
       "Build Tools",
       "Data & Messaging",
       "APIs & Protocols",
       "Observability",
       "Infrastructure",
       "Languages & Paradigms",
       "NewSQL" >>

\* an exclusion set without the project-instruction file
ExcludedReadmeOnly == {"README.md"}

EXCLUDED_FILES == {"README.md", "CLAUDE.md"}

\* U+2014 and U+2013, written as escapes
EmDash == "\\u2014"

EnDash == "\\u2013"

Range(seq) == {seq[i] : i \in 1..Len(seq)}

\* glob "*.md": the name ends in .md and is not a dot-file
GlobMd(name) ==
    /\ Len(name) >= 4
    /\ SubSeq(name, Len(name) - 2, Len(name)) = ".md"
    /\ Ch(name, 1) # "."

\* sorted(S) for a set of strings
RECURSIVE Sorted(_)
Sorted(S) ==
    IF S = {} THEN <<>>
    ELSE LET m == CHOOSE x \in S : \A y \in S : ~StrLess(y, x)
         IN  <<m>> \o Sorted(S \ {m})

\* dict.get(key): None or the value
NoneVal == [none |-> TRUE, val |-> ""]

Get(d, k) == IF k \in DOMAIN d THEN [none |-> FALSE, val |-> d[k]] ELSE NoneVal

\* truth value of an object that is None or a string
Truthy(x) == ~x.none /\ x.val # ""

\* a gate that only asks for the three keys to be there
AllPresent(title, category, description) ==
    ~title.none /\ ~category.none /\ ~description.none

\* all([title, category, description])
AllFields(title, category, description) ==
    Truthy(title) /\ Truthy(category) /\ Truthy(description)

\* categories.setdefault(category, []).append(entry)
AppendEntry(cats, category, entry) ==
    [c \in (DOMAIN cats) \cup {category} |->
        IF c = category
        THEN Append(IF c \in DOMAIN cats THEN cats[c] ELSE <<>>, entry)
        ELSE cats[c]]

\* a sort key that keeps the case of the title
RawTitle(e) == e.title

\* the sort key lambda e: e["title"].lower()
SortKey(e) == Lower(e.title)

\* list.sort(key=...) is stable: an element goes after every element whose
\* key is not greater than its own
RECURSIVE SortEntries(_)
SortEntries(entries) ==
    IF entries = <<>> THEN <<>>
    ELSE LET n == Len(entries)
             e == entries[n]
             done == SortEntries(SubSeq(entries, 1, n - 1))
             before == {i \in 1..Len(done) : ~StrLess(SortKey(e), SortKey(done[i]))}
             at == IF before = {} THEN 0 ELSE Max(before)
         IN  SubSeq(done, 1, at) \o <<e>> \o SubSeq(done, at + 1, Len(done))

\* the categories of CATEGORY_ORDER that are present, in that order
RECURSIVE Known(_, _)
Known(order, present) ==
    IF order = <<>> THEN <<>>
    ELSE (IF Head(order) \in present THEN <<Head(order)>> ELSE <<>>)
             \o Known(Tail(order), present)

\* sorted(set(categories.keys()) - set(CATEGORY_ORDER))
Unknown(present) == Sorted(present \ Range(CATEGORY_ORDER))

\* every category in alphabetical order, the preferred list ignored
AllSorted(present) == Sorted(present)

OrderCategories(present) == Known(CATEGORY_ORDER, present) \o Unknown(present)

\* a count of the categories instead of the plans
CountCategories(cats, order) == Len(order)

\* sum(len(categories[c]) for c in ordered_categories)
RECURSIVE Total(_, _)
Total(cats, order) ==
    IF order = <<>> THEN 0 ELSE Len(cats[Head(order)]) + Total(cats, Tail(order))

Bullet(entry) ==
    "- [" \o entry.title \o "](" \o entry.filename \o ") " \o EmDash \o " "
        \o entry.description

RECURSIVE Bullets(_)
Bullets(entries) ==
    IF entries = <<>> THEN <<>> ELSE <<Bullet(Head(entries))>> \o Bullets(Tail(entries))

Heading(cat) == "### " \o cat

RECURSIVE Sections(_, _)
Sections(cats, order) ==
    IF order = <<>> THEN <<>>
    ELSE <<"", Heading(Head(order)), "">> \o Bullets(cats[Head(order)])
             \o Sections(cats, Tail(order))

OverviewLine(n) ==
    "This repository contains " \o Str(n) \o " self-paced learning plans generated with"
    \o " Claude. Each plan follows a phased, project-based format designed for"
    \o " working engineers " \o EmDash \o " typically 12" \o EnDash \o "16 weeks of focused study with curated"
    \o " resources, hands-on milestones, and progressive complexity. Topics range"
    \o " from Spring Boot internals to Kubernetes, Go, and distributed data systems."

Preamble(n) ==
    << "# Claude Learning Plans",
       "",
       "Structured, multi-week learning curricula for senior engineers who want"
         \o " deep mastery of backend, infrastructure, and systems topics.",
       "",
       "## Overview",
       "",
       OverviewLine(n),
       "",
       "## Plans by Category" >>

HowTo ==
    << "",
       "## How to Use These Plans",
       "",
       "Each plan is a standalone Markdown file structured around:",
       "",
       "1. **Phases** " \o EmDash \o " Progressive stages from foundations to advanced topics,"
         \o " typically spanning 12" \o EnDash \o "16 weeks.",
       "2. **Milestones** " \o EmDash \o " Concrete projects and exercises at each phase to"
         \o " validate understanding.",
       "3. **Curated Resources** " \o EmDash \o " Books, documentation, talks, and blog posts"
         \o " selected for each topic.",
       "",
       "Pick a plan that matches your current learning goal, work through the"
         \o " phases at your own pace, and use the milestones to gauge progress.",
       "" >>

\* the list `lines`
Render(cats, order, n) == Preamble(n) \o Sections(cats, order) \o HowTo

\* open(path, "a"): the data goes after the old content
AppendFile(old, data) == old \o data

\* open(path, "w") then write(data): the old content is discarded
WriteFile(old, data) == data

NoFrontMatterWarning(filename) ==
    "warning: " \o filename \o " has no front matter, skipping"

\* the warning without the file name
UnnamedWarning(filename) == "warning: missing required front matter fields, skipping"

MissingFieldsWarning(filename) ==
    "warning: " \o filename \o " missing required front matter fields, skipping"

----------------------------------------------------------------------------
(* The directories and the texts the model runs on                         *)

\* number of plan files the directory may hold
MaxPlans == 3

\* number of times the script is run on the directory
MaxRuns == 2

\* longest value text of a generated front-matter line
MaxValueLen == 3

NamePool == <<"b.md", "a.md", "C.md", "d.md", "e.md">>

PlanNames == {NamePool[i] : i \in 1..MaxPlans}

\* a file with a metadata block holding the three fields, double-quoted
Plan(title, category, description) ==
    "---\ntitle: \"" \o title \o "\"\ncategory: \"" \o category
        \o "\"\ndescription: \"" \o description \o "\"\n---\n\n# " \o title \o "\n"

PlanTexts ==
    { "# Notes\n\nNo metadata here.\n",
      "---\ntitle: Kafka\ncategory: 'Data & Messaging'\n---\n",
      "---\ntitle: \"Go\"\ncategory: Infrastructure\ndescription:  \n---\n",
      Plan("banana", "Infrastructure", "Yellow"),
      Plan("Apple", "Infrastructure", "Red"),
      Plan("apple", "Infrastructure", "Green"),
      Plan("cherry", "APIs & Protocols", "Dark"),
      Plan("Streams", "Data & Messaging", "Logs"),
      Plan("Misc", "ZZZ-Custom", "Other"),
      Plan("misc", "apis & protocols", "Lower") }

\* the output of an earlier run and the project-instruction file are in the
\* directory from the start, both with a metadata block holding the three fields
DecoyNames == {"README.md", "CLAUDE.md"}

DecoyText == Plan("Decoy", "Infrastructure", "Not a plan")

\* also present: a file that is not markdown and a dot-file, both with metadata
OtherNames == {"notes.txt", ".draft.md"}

\* the directory holding the plan files `plan` (name -> text) and, besides
\* the other files, the files named in `decoys`
Directory(plan, decoys) ==
    [n \in (DOMAIN plan) \cup decoys \cup OtherNames |->
        IF n \in DOMAIN plan THEN plan[n] ELSE DecoyText]

RECURSIVE Strings(_, _)
Strings(alphabet, n) ==
    IF n = 0 THEN {""}
    ELSE Strings(alphabet, n - 1)
             \cup {s \o c : s \in Strings(alphabet, n - 1), c \in alphabet}

\* front-matter lines: an optional indent, a key, a separator and a value text
LineTexts ==
    { indent \o "k" \o sep \o v :
        indent \in {"", " "},
        sep \in {":", " : ", ""},
        v \in Strings({"\"", "'", " ", "v"}, MaxValueLen) }

\* texts exercising the line patterns: a block of one or two lines
LineInputs ==
    { "---\n" \o l1 \o "\n" \o l2 \o "---\n" :
        l1 \in LineTexts, l2 \in {"", "k: w\n", "j: 'w'\n"} }

\* texts exercising the block pattern
BlockInputs ==
    { open \o body \o close \o rest :
        open \in {"---\n", "--- \n", "---\n\n", "---", "--\n", " ---\n", ""},
        body \in {"", "\n", "k: v\n", "junk\n", "---\n"},
        close \in {"---\n", "--- \t\n", "---", "---x\n", ""},
        rest \in {"", "body\n", "\n---\n"} }

ParseInputs == LineInputs \cup BlockInputs

----------------------------------------------------------------------------
(* generate_readme as a state machine                                      *)

EmptyCats == [c \in {} |-> <<>>]

Locals ==
    /\ md_files = <<>>
    /\ idx = 0
    /\ parsed = {}
    /\ categories = EmptyCats
    /\ ordered_categories = <<>>
    /\ total = 0
    /\ lines = <<>>
    /\ stderr = <<>>
    /\ opened = <<>>

ParserIdle ==
    /\ content = ""
    /\ ppc = "idle"
    /\ todo = <<>>
    /\ front_matter = None

Init ==
    /\ \E present \in SUBSET PlanNames :
         \E plan \in [present -> PlanTexts] :
            dir = Directory(plan, DecoyNames)
    /\ pc = "start"
    /\ Locals
    /\ outputs = <<>>
    /\ ParserIdle

\* md_files = sorted(glob.glob(...)); categories = {}
Discover ==
    /\ pc = "start"
    /\ md_files' = Sorted({n \in DOMAIN dir : GlobMd(n)})
    /\ idx' = 1
    /\ categories' = EmptyCats
    /\ pc' = "loop"
    /\ UNCHANGED <<dir, parsed, ordered_categories, total, lines, stderr, opened,
                   outputs, parseVars>>

Current == md_files[idx]

\* a loop that stops one element early
HasNextEarly(files, i) == i < Len(files)

\* the for loop has a next element
HasNext(files, i) == i <= Len(files)

InLoop == pc = "loop" /\ HasNext(md_files, idx)

\* if filename in EXCLUDED_FILES: continue
SkipExcluded ==
    /\ InLoop
    /\ Current \in EXCLUDED_FILES
    /\ idx' = idx + 1
    /\ UNCHANGED <<dir, pc, md_files, parsed, categories, ordered_categories, total,
                   lines, stderr, opened, outputs, parseVars>>

\* open() or read() raises in parse_front_matter: nothing catches it
ReadFails ==
    /\ InLoop
    /\ Current \notin EXCLUDED_FILES
    /\ parsed' = parsed \cup {Current}
    /\ pc' = "crashed"
    /\ UNCHANGED <<dir, md_files, idx, categories, ordered_categories, total, lines,
                   stderr, opened, outputs, parseVars>>

\* the front matter of the file the loop is at
CurrentFm == parse_front_matter(dir[Current])

\* title, category, description = fm.get(...)
Fields(fm) ==
    [title |-> Get(fm.dict, "title"),
     category |-> Get(fm.dict, "category"),
     description |-> Get(fm.dict, "description")]

\* not all([title, category, description])
Incomplete(f) == ~AllFields(f.title, f.category, f.description)

\* the three ways one pass of the loop body ends
Outcome(fm) ==
    IF ~fm.present THEN "none"
    ELSE IF Incomplete(Fields(fm)) THEN "missing"
    ELSE "entry"

\* {"title": title, "description": description, "filename": filename}
Entry(f, filename) ==
    [title |-> f.title.val, description |-> f.description.val, filename |-> filename]

\* fm is None
NoFrontMatter(fm) ==
    /\ Outcome(fm) = "none"
    /\ stderr' = Append(stderr, NoFrontMatterWarning(Current))
    /\ UNCHANGED categories

\* not all([title, category, description])
MissingFields(fm) ==
    /\ Outcome(fm) = "missing"
    /\ stderr' = Append(stderr, MissingFieldsWarning(Current))
    /\ UNCHANGED categories

\* categories.setdefault(category, []).append({...})
Added(cats, f, filename) == AppendEntry(cats, f.category.val, Entry(f, filename))

AddEntry(fm) ==
    /\ Outcome(fm) = "entry"
    /\ categories' = Added(categories, Fields(fm), Current)
    /\ UNCHANGED stderr

\* one pass of the loop body for a file that is read: fm = parse_front_matter(filepath)
LoopBody(fm) ==
    /\ \/ NoFrontMatter(fm)
       \/ MissingFields(fm)
       \/ AddEntry(fm)
    /\ parsed' = parsed \cup {Current}
    /\ idx' = idx + 1
    /\ UNCHANGED <<dir, pc, md_files, ordered_categories, total, lines, opened,
                   outputs, parseVars>>

ParseFile ==
    /\ InLoop
    /\ Current \notin EXCLUDED_FILES
    /\ LoopBody(CurrentFm)

\* after the loop: sort each category, order the categories, count, build `lines`
Build ==
    /\ pc = "loop"
    /\ ~HasNext(md_files, idx)
    /\ LET sorted == [c \in DOMAIN categories |-> SortEntries(categories[c])]
           order == OrderCategories(DOMAIN categories)
           n == Total(sorted, order)
       IN  /\ categories' = sorted
           /\ ordered_categories' = order
           /\ total' = n
           /\ lines' = Render(sorted, order, n)
    /\ pc' = "write"
    /\ UNCHANGED <<dir, md_files, idx, parsed, stderr, opened, outputs, parseVars>>

\* with open(readme_path, "w") as f: f.write("\n".join(lines))
Write ==
    /\ pc = "write"
    /\ LET old == IF "README.md" \in DOMAIN dir THEN dir["README.md"] ELSE ""
           new == WriteFile(old, Join(lines))
       IN  /\ dir' = [n \in (DOMAIN dir) \cup {"README.md"} |->
                        IF n = "README.md" THEN new ELSE dir[n]]
           /\ outputs' = Append(outputs, new)
    /\ opened' = Append(opened, "README.md")
    /\ pc' = "done"
    /\ UNCHANGED <<md_files, idx, parsed, categories, ordered_categories, total,
                   lines, stderr, parseVars>>

\* the script is started again on the directory it left
Rerun ==
    /\ pc = "done"
    /\ Len(outputs) < MaxRuns
    /\ pc' = "start"
    /\ md_files' = <<>>
    /\ idx' = 0
    /\ parsed' = {}
    /\ categories' = EmptyCats
    /\ ordered_categories' = <<>>
    /\ total' = 0
    /\ lines' = <<>>
    /\ stderr' = <<>>
    /\ opened' = <<>>
    /\ UNCHANGED <<dir, outputs, parseVars>>

Next ==
    \/ Discover
    \/ SkipExcluded
    \/ ReadFails
    \/ ParseFile
    \/ Build
    \/ Write
    \/ Rerun

Spec == Init /\ [][Next]_vars

----------------------------------------------------------------------------
(* parse_front_matter as a state machine, on generated texts               *)

GeneratorIdle ==
    /\ dir = [n \in {} |-> ""]
    /\ pc = "idle"
    /\ Locals
    /\ outputs = <<>>

InitParse ==
    /\ GeneratorIdle
    /\ content \in ParseInputs
    /\ ppc = "match"
    /\ todo = <<>>
    /\ front_matter = None

\* if not match: return None
ReturnNone ==
    /\ ppc = "match"
    /\ ~BlockMatch(content).matched
    /\ front_matter' = None
    /\ ppc' = "returned"
    /\ UNCHANGED <<content, todo, genVars>>

\* front_matter = {}; the loop starts over match.group(1).splitlines()
EnterLoop ==
    /\ ppc = "match"
    /\ BlockMatch(content).matched
    /\ front_matter' = Some(EmptyDict)
    /\ todo' = SplitLines(BlockMatch(content).group1)
    /\ ppc' = "loop"
    /\ UNCHANGED <<content, genVars>>

\* one pass of the loop body
ParseLine ==
    /\ ppc = "loop"
    /\ todo # <<>>
    /\ front_matter' = Some(LineStep(front_matter.dict, Head(todo)))
    /\ todo' = Tail(todo)
    /\ UNCHANGED <<content, ppc, genVars>>

\* return front_matter
ReturnDict ==
    /\ ppc = "loop"
    /\ todo = <<>>
    /\ ppc' = "returned"
    /\ UNCHANGED <<content, todo, front_matter, genVars>>

NextParse ==
    \/ ReturnNone
    \/ EnterLoop
    \/ ParseLine
    \/ ReturnDict

SpecParse == InitParse /\ [][NextParse]_vars

\* the stepwise parser returns what the operator parse_front_matter computes
ParserAgrees == ppc = "returned" => front_matter = parse_front_matter(content)

----------------------------------------------------------------------------
(* Reading the state and the rendered document                             *)

StartsWith(s, p) == Len(s) >= Len(p) /\ SubSeq(s, 1, Len(p)) = p

\* first position at or after i where p occurs in s, 0 if none
RECURSIVE FindSub(_, _, _)
FindSub(s, p, i) ==
    IF i + Len(p) - 1 > Len(s) THEN 0
    ELSE IF SubSeq(s, i, i + Len(p) - 1) = p THEN i
    ELSE FindSub(s, p, i + 1)

Contains(s, p) == FindSub(s, p, 1) # 0

IsBullet(l) == StartsWith(l, "- [")

IsHeading(l) == StartsWith(l, "### ")

\* the link text and the link target of a bullet line
TitleOf(l) == SubSeq(l, 4, FindSub(l, "](", 1) - 1)

FileOf(l) == SubSeq(l, FindSub(l, "](", 1) + 2, FindSub(l, ")", FindSub(l, "](", 1)) - 1)

\* the heading lines without their "### "
Unheaded(hs) == [i \in 1..Len(hs) |-> SubSeq(hs[i], 5, Len(hs[i]))]

\* the category headings of the document, in order
RenderedCategories == Unheaded(SelectSeq(lines, IsHeading))

\* number of consecutive bullet lines from line i on
RECURSIVE BulletRun(_)
BulletRun(i) ==
    IF i <= Len(lines) /\ IsBullet(lines[i]) THEN 1 + BulletRun(i + 1) ELSE 0

\* the bullets below the heading at line h (a blank line follows a heading)
BulletsBelow(h) == SubSeq(lines, h + 2, h + 1 + BulletRun(h + 2))

HeadingAt == {h \in 1..Len(lines) : IsHeading(lines[h])}

\* the mapping holds the three fields, none of them empty
Required(fm) ==
    /\ fm.present
    /\ \A k \in {"title", "category", "description"} :
         k \in DOMAIN fm.dict /\ fm.dict[k] # ""

\* what parse_front_matter returns for each text a directory may hold
Mapping == [t \in PlanTexts \cup {DecoyText} |-> parse_front_matter(t)]

\* the discovered files that are not excluded, and those that yield an entry
Candidates == Range(md_files) \ {"README.md", "CLAUDE.md"}

Yielding == {f \in Candidates : Required(Mapping[dir[f]])}

EntryFiles ==
    UNION {{categories[c][i].filename : i \in 1..Len(categories[c])} :
              c \in DOMAIN categories}

\* the loop is over and the document is built; the step that follows writes
\* it and changes nothing else
Built == pc = "write"

\* README.md as the run found it
ReadmeBefore == IF outputs = <<>> THEN DecoyText ELSE outputs[Len(outputs)]

\* the bullet lines of the document that link to file f
BulletsFor(f) == {i \in 1..Len(lines) : IsBullet(lines[i]) /\ FileOf(lines[i]) = f}

\* the lines of stderr that name file f
WarningsFor(f) == {i \in 1..Len(stderr) : Contains(stderr[i], " " \o f \o " ")}

NumBullets == Len(SelectSeq(lines, IsBullet))

\* the Overview sentence interpolates n
OverviewSays(n) ==
    /\ \E i \in 1..Len(lines) : StartsWith(lines[i], "This repository contains ")
    /\ \A i \in 1..Len(lines) :
         StartsWith(lines[i], "This repository contains ")
            => StartsWith(lines[i], "This repository contains " \o Str(n) \o " self-paced")

\* the sequence H of categories has no repetition, has those of
\* CATEGORY_ORDER first and in the order of that list, and the others after
\* them in ascending code-point order
WellOrdered(H) ==
    \A i, j \in 1..Len(H) :
        i < j =>
            /\ H[i] # H[j]
            /\ H[j] \in Range(CATEGORY_ORDER)
                 => /\ H[i] \in Range(CATEGORY_ORDER)
                    /\ \E a, b \in 1..Len(CATEGORY_ORDER) :
                         /\ a < b
                         /\ CATEGORY_ORDER[a] = H[i]
                         /\ CATEGORY_ORDER[b] = H[j]
            /\ H[i] \notin Range(CATEGORY_ORDER)
                 => /\ H[j] \notin Range(CATEGORY_ORDER)
                    /\ StrLess(H[i], H[j])

\* the lower-cased titles keys and the file names files of a run of bullets
\* are in non-decreasing order of key, equal keys in the order of the files
SortedStable(keys, files) ==
    \A i, j \in 1..Len(keys) :
        i < j =>
            /\ ~StrLess(keys[j], keys[i])
            /\ keys[i] = keys[j] => StrLess(files[i], files[j])

KeysOf(bs) == [i \in 1..Len(bs) |-> Lower(TitleOf(bs[i]))]

TitlesOf(bs) == [i \in 1..Len(bs) |-> TitleOf(bs[i])]

FilesOf(bs) == [i \in 1..Len(bs) |-> FileOf(bs[i])]

\* file f, whose mapping is fm, has an Entry and a bullet exactly if fm holds
\* the three fields
Gated(f, req) == ((f \in EntryFiles) <=> req) /\ ((BulletsFor(f) # {}) <=> req)

\* file f, whose mapping is d, has the one bullet at line i; it is made of the
\* three fields and stands under the heading of the category
OneBullet(f, d, at) ==
    /\ Cardinality(at) = 1
    /\ \A i \in at :
         lines[i] = "- [" \o d["title"] \o "](" \o f \o ") " \o EmDash \o " "
                       \o d["description"]
    /\ \E h \in HeadingAt :
         /\ lines[h] = "### " \o d["category"]
         /\ at \subseteq (h + 2)..(h + 1 + BulletRun(h + 2))

\* the state of a candidate file after the loop: no Entry and one warning
\* naming it, or an Entry and no warning
WarnedOnce(f, yields) == Cardinality(WarningsFor(f)) = IF yields THEN 0 ELSE 1

----------------------------------------------------------------------------
(* Claims about generate_readme, checked under Spec                        *)

\* C1: once the document is built, a candidate file (discovered, not excluded)
\* has an Entry, and a bullet in the document, if and only if the mapping
\* parsed from it holds title, category and description, all non-empty; no
\* other file has an Entry.
C1_RequiredFieldGating ==
    Built =>
        /\ EntryFiles \subseteq Candidates
        /\ \A f \in Candidates : Gated(f, Required(Mapping[dir[f]]))

\* a run that meets a file with an Entry, a file with no metadata block and a
\* file with an empty value
C1_Witness ==
    /\ Built
    /\ EntryFiles # {}
    /\ \E f \in Candidates : ~Mapping[dir[f]].present
    /\ \E f \in Candidates :
         /\ Mapping[dir[f]].present
         /\ "description" \in DOMAIN Mapping[dir[f]].dict
         /\ Mapping[dir[f]].dict["description"] = ""

\* C2: README.md and CLAUDE.md are never handed to the parser and never yield
\* an Entry or a warning, whatever they hold; once the loop is over every
\* other discovered file has been handed to the parser.
C2_Exclusion ==
    /\ parsed \cap {"README.md", "CLAUDE.md"} = {}
    /\ EntryFiles \cap {"README.md", "CLAUDE.md"} = {}
    /\ Built =>
         /\ WarningsFor("README.md") = {} /\ WarningsFor("CLAUDE.md") = {}
         /\ parsed = Range(md_files) \ {"README.md", "CLAUDE.md"}

\* both excluded files are discovered and hold the three fields, and other
\* files were parsed
C2_Witness ==
    /\ Built
    /\ {"README.md", "CLAUDE.md"} \subseteq Range(md_files)
    /\ Required(Mapping[dir["README.md"]])
    /\ Required(Mapping[dir["CLAUDE.md"]])
    /\ Cardinality(parsed) >= 2

\* C3: the category headings of the document are exactly the categories of
\* the files that yield an Entry, each once; those of CATEGORY_ORDER come
\* first, in the order of that list, and the others follow in ascending
\* code-point order.
C3_CategoryOrdering ==
    Built =>
        /\ Range(RenderedCategories)
             = {Mapping[dir[f]].dict["category"] : f \in Yielding}
        /\ WellOrdered(RenderedCategories)

\* the example of the claim
C3_Witness ==
    /\ Built
    /\ RenderedCategories = <<"APIs & Protocols", "Infrastructure", "ZZZ-Custom">>

\* C4: under every category heading the bullets are in non-decreasing order
\* of the lower-cased title, and bullets whose titles are equal ignoring case
\* are in the order of their file names.
C4_WithinCategoryOrder ==
    Built =>
        \A h \in HeadingAt :
            SortedStable(KeysOf(BulletsBelow(h)), FilesOf(BulletsBelow(h)))

\* a category whose bullets are apple (a.md), Apple (b.md), banana (C.md)
C4_Witness ==
    /\ Built
    /\ \E h \in HeadingAt :
         /\ TitlesOf(BulletsBelow(h)) = <<"apple", "Apple", "banana">>
         /\ FilesOf(BulletsBelow(h)) = <<"a.md", "b.md", "C.md">>

\* C5: the number in the Overview sentence is the number of bullet lines,
\* which is the number of candidate files that yield an Entry; every such file
\* has exactly one bullet, with its title, file name and description, under
\* the heading of its own category.
C5_CountAccuracy ==
    Built =>
        /\ OverviewSays(NumBullets)
        /\ total = NumBullets
        /\ NumBullets = Cardinality(Yielding)
        /\ \A f \in Yielding :
             OneBullet(f, Mapping[dir[f]].dict, BulletsFor(f))

\* three entries, two of them in one category
C5_Witness ==
    /\ Built
    /\ NumBullets = 3
    /\ Len(RenderedCategories) = 2

\* C6: the runs on an unchanged directory leave the same README.md: every
\* later run writes what the first wrote, and the file holds the document of
\* the last run and nothing else.
C6_Idempotence ==
    /\ \A i \in 1..Len(outputs) : outputs[i] = outputs[1]
    /\ pc = "done" => dir["README.md"] = Join(lines)

\* the second run is over, with entries and warnings
C6_Witness ==
    /\ pc = "done"
    /\ Len(outputs) = 2
    /\ total >= 2
    /\ stderr # <<>>

\* C7: once the loop is over, every candidate file without an Entry has
\* exactly one warning naming it, every file with an Entry has none, all
\* candidate files were gone through, and the document is written; with no
\* Entry at all the document has no category heading and a count of 0.
C7_SkipAndContinue ==
    /\ Built =>
         /\ \A f \in Candidates : WarnedOnce(f, f \in Yielding)
         /\ Len(stderr) = Cardinality(Candidates \ Yielding)
         /\ parsed = Candidates
         /\ Yielding = {} => /\ total = 0
                             /\ HeadingAt = {}
                             /\ OverviewSays(0)
    /\ pc = "done" => /\ Len(stderr) = Cardinality(Candidates) - total
                      /\ dir["README.md"] = Join(lines)

\* the first file is skipped for want of a metadata block, a later one for an
\* empty field, and the last one still yields an Entry
C7_Witness ==
    /\ pc = "done"
    /\ Len(stderr) = 2
    /\ stderr[1] = "warning: C.md has no front matter, skipping"
    /\ stderr[2] = "warning: a.md missing required front matter fields, skipping"
    /\ EntryFiles = {"b.md"}

\* C10: in a run README.md is opened for writing at most once, and only when
\* every discovered file that is not excluded has been read and parsed; until
\* then, also when a read has aborted the run, README.md is as the run found
\* it; no other file is written.
C10_WriteLast ==
    /\ opened \in {<<>>, <<"README.md">>}
    /\ opened # <<>> =>
         /\ pc = "done"
         /\ parsed = Range(md_files) \ {"README.md", "CLAUDE.md"}
    /\ opened = <<>> => dir["README.md"] = ReadmeBefore
    /\ \A n \in (DOMAIN dir) \ {"README.md"} : dir[n] \in PlanTexts \cup {DecoyText}
    /\ DOMAIN dir \subseteq PlanNames \cup DecoyNames \cup OtherNames

\* a read aborts the second run after two files were parsed
C10_Witness ==
    /\ pc = "crashed"
    /\ Len(outputs) = 1
    /\ Cardinality(parsed) = 2
    /\ dir["README.md"] = outputs[1]

----------------------------------------------------------------------------
(* Claims about parse_front_matter, checked under SpecParse                *)

\* what the claim has a line store: for the two quoted forms the text between
\* the quotes as it stands, for the bare form the stripped remainder
ClaimedValue(line, m) ==
    IF DoubleQuoted(line).matched \/ SingleQuoted(line).matched
    THEN m.value
    ELSE Strip(m.value)

ClaimedStore(fm, line, m) ==
    IF m.matched THEN Store(fm, m.key, ClaimedValue(line, m)) ELSE fm

RECURSIVE ClaimedLines(_, _)
ClaimedLines(fm, ls) ==
    IF ls = <<>> THEN fm
    ELSE ClaimedLines(ClaimedStore(fm, Head(ls), LineMatch(Head(ls))), Tail(ls))

\* C8: the mapping returned for a block is what its lines give one after the
\* other, a later line for a key replacing an earlier one: a line of a quoted
\* form gives the text between the quotes exactly, a line of the bare form the
\* remainder after the colon without leading and trailing white space, and a
\* line of no form nothing.
C8_ValueExtraction ==
    (ppc = "returned" /\ front_matter.present) =>
        front_matter.dict
            = ClaimedLines(EmptyDict, SplitLines(BlockMatch(content).group1))

\* number of spaces and tabs from position i on
RECURSIVE BlankRun(_, _)
BlankRun(text, i) ==
    IF i <= Len(text) /\ Ch(text, i) \in {" ", "\t"} THEN 1 + BlankRun(text, i + 1) ELSE 0

\* a line of three hyphens (blanks may follow them) starts at position i
DelimiterAt(text, i) ==
    /\ i = 1 \/ Ch(text, i - 1) = "\n"
    /\ i + 3 <= Len(text)
    /\ SubSeq(text, i, i + 2) = "---"
    /\ i + 3 + BlankRun(text, i + 3) <= Len(text)
    /\ Ch(text, i + 3 + BlankRun(text, i + 3)) = "\n"

\* the text begins with a line of three hyphens and has another one later
HasBlock(text) == DelimiterAt(text, 1) /\ \E i \in 2..Len(text) : DelimiterAt(text, i)

\* C9: parse_front_matter returns None exactly when the text does not begin
\* with a line of three hyphens followed later by another line of three
\* hyphens; whenever there is such a block, also one with no line between the
\* delimiters, it returns a mapping.
C9_NoneExactlyWithoutBlock ==
    ppc = "returned" => (front_matter.present <=> HasBlock(content))

\* apart from a block with nothing between its delimiters, C9 holds
NoneOnlyForEmptyBlock ==
    ppc = "returned" =>
        (front_matter.present
            <=> (HasBlock(content) /\ \E i \in 6..Len(content) : DelimiterAt(content, i)
                                                 /\ FindNewline(content, 1) + 1 < i))

====
